---- MODULE Spec2Model ----
(***************************************************************************)
(* Order / ticket placement of the cinema service.                         *)
(*                                                                         *)
(* A request to create an order goes through                               *)
(*   OrdersViewSet (views.py:109-122)                                      *)
(*     -> OrderSerializer.is_valid: the `tickets` list field               *)
(*        (serializers.py:178) runs TicketSerializer on every item, in     *)
(*        input order, outside of any transaction                          *)
(*     -> OrderSerializer.create (serializers.py:188-200): one             *)
(*        transaction.atomic() block that inserts the order and one        *)
(*        ticket per validated item.                                       *)
(* Several requests run concurrently against one store; a query sees the   *)
(* committed rows only, the writes of an open transaction become visible   *)
(* together at its commit.  The items of a ticket list are drawn as the    *)
(* list field reads them, one per step, in input order: the list field     *)
(* keeps the validated items (ret) and one error entry per item (errors).  *)
(***************************************************************************)
EXTENDS Integers, Sequences, FiniteSets, TLC

\* ---------------------------------------------------------------- bounds
\* longest ticket list of one request
MaxLen == 2

\* rows and seats of a request range over 0 .. MaxCoord
MaxCoord == 2

\* largest hall side drawn when the seat check is applied on its own
MaxDim == 3

\* --------------------------------------------------------------- catalog
\* the requests of one behaviour; they may overlap in any way
Requests == {"r1", "r2"}

\* request.user of each request
user == [r \in Requests |-> IF r = "r1" THEN "alice" ELSE "bob"]

\* CinemaHall rows: two halls of different geometry
CinemaHalls ==
  [h \in {"h1", "h2"} |->
     IF h = "h1" THEN [rows |-> 2, seats_in_row |-> 1]
                 ELSE [rows |-> 1, seats_in_row |-> 2]]

\* MovieSession rows: session id |-> its cinema_hall
MovieSessions == [s \in {1, 2} |-> IF s = 1 THEN "h1" ELSE "h2"]

SessionIds == DOMAIN MovieSessions

\* primary keys a request may carry; 0 is the key of no session
RequestSessionIds == SessionIds \cup {0}

\* CinemaHall.capacity
capacity(cinema_hall) == cinema_hall.rows * cinema_hall.seats_in_row

\* the items a request's ticket list is drawn from
TicketInputs ==
  [movie_session : RequestSessionIds, row : 0..MaxCoord, seat : 0..MaxCoord]

\* the empty error entry the list field appends for a valid item
NoError == "ok"

VARIABLES
  orders,        \* committed Order rows: [id, user]
  tickets,       \* committed Ticket rows: [id, order, movie_session, row, seat]
  pc,            \* per request: position in its handling
  n,             \* per request: length of the submitted ticket list
  ret,           \* per request: the validated items (the list field's ret)
  errors,        \* per request: one entry per item read (the list field's errors)
  i,             \* per request: tickets_data items inserted so far
  result,        \* per request: its outcome
  txOrder,       \* per request: order rows written by the open transaction
  txTickets,     \* per request: ticket rows written by the open transaction
  written,       \* per request: rows it has added to the committed store
  probe          \* input and output of the seat check applied on its own

vars == <<orders, tickets, pc, n, ret, errors, i, result, txOrder, txTickets,
          written, probe>>

\* ------------------------------------------------------- TicketSerializer
\* the upper bound of the row taken as exclusive
validate_range_exclusive(cinema_hall, row, seat) ==
  IF row < 1 \/ row >= cinema_hall.rows THEN "OutOfRangeRow"
  ELSE IF seat < 1 \/ seat > cinema_hall.seats_in_row THEN "OutOfRangeSeat"
  ELSE NoError

\* serializers.py:128-146: row, then seat, against the hall's geometry
validate_range(cinema_hall, row, seat) ==
  IF row < 1 \/ row > cinema_hall.rows THEN "OutOfRangeRow"
  ELSE IF seat < 1 \/ seat > cinema_hall.seats_in_row THEN "OutOfRangeSeat"
  ELSE NoError

\* serializers.py:149-151: Ticket.objects.filter(...).exists() on committed rows
exists(tks, movie_session, row, seat) ==
  \E t \in tks : t.movie_session = movie_session /\ t.row = row /\ t.seat = seat

\* serializers.py:120-161: the hall is the one of the item's own session
validate(data, tks) ==
  LET cinema_hall == CinemaHalls[MovieSessions[data.movie_session]]
      range == validate_range(cinema_hall, data.row, data.seat)
  IN  IF range # NoError THEN range
      ELSE IF exists(tks, data.movie_session, data.row, data.seat) THEN "SeatTaken"
      ELSE NoError

\* serializers.py:107-109: the primary key must name a MovieSession; validate()
\* runs only when the fields of the item are valid
run_validation(item, tks) ==
  IF item.movie_session \notin SessionIds THEN "SessionNotFound"
  ELSE validate(item, tks)

\* the list field declared without allow_empty=False
allow_empty_default == TRUE

\* serializers.py:178: tickets = TicketSerializer(many=True, allow_empty=False)
allow_empty == FALSE

\* only the entry of the first item decides
any_errors_first_only(errs) == Len(errs) > 0 /\ errs[1] # NoError

\* serializers.py:178: the list is rejected when any entry of errors is not empty
any_errors(errs) == \E k \in 1..Len(errs) : errs[k] # NoError

\* the list field stopping at the first invalid item
more_items_fail_fast(errs, len) == Len(errs) < len /\ ~any_errors(errs)

\* serializers.py:178: the list field goes on to the next item after an invalid
\* one, as long as the list has items left
more_items(errs, len) == Len(errs) < len

\* ------------------------------------------------------------------ store
\* serializers.py:83-86
get_tickets_available(obj, tks) ==
  capacity(CinemaHalls[MovieSessions[obj]])
    - Cardinality({t \in tks : t.movie_session = obj})

\* Model.objects.create on a table: the Order and Ticket tables take every row
\* they are given (no constraint of the store stands behind the check of
\* validate() in the commit path)
insert(table, row) == table \cup {row}

\* the write made without the transaction: the row is committed at once
atomic_write_autocommit(committed, staged, row) ==
  [committed |-> insert(committed, row), staged |-> staged]

\* serializers.py:192: a row written inside transaction.atomic() stays with the
\* transaction until it commits
atomic_write(committed, staged, row) ==
  [committed |-> committed, staged |-> insert(staged, row)]

\* Primary keys are given by the store and mean nothing to the code; a row's
\* key is fresh by construction: an order's key is the request that creates it,
\* a ticket's key the order and the position of its item in tickets_data.
\* serializers.py:194: Order.objects.create(user=user)
new_order(id, owner) == [id |-> id, user |-> owner]

\* the ticket row written with row and seat exchanged
new_ticket_swapped(id, order_id, ticket_data) ==
  [id |-> id, order |-> order_id, movie_session |-> ticket_data.movie_session,
   row |-> ticket_data.seat, seat |-> ticket_data.row]

\* serializers.py:198: Ticket.objects.create(order=order, **ticket_data)
new_ticket(id, order_id, ticket_data) ==
  [id |-> id, order |-> order_id, movie_session |-> ticket_data.movie_session,
   row |-> ticket_data.row, seat |-> ticket_data.seat]

\* ------------------------------------------------------------------- Init
ProbeIdle ==
  [hall |-> CinemaHalls["h1"], row |-> 0, seat |-> 0, out |-> "unused"]

InitStore ==
  /\ orders = {}
  /\ tickets = {}
  /\ pc = [r \in Requests |-> "idle"]
  /\ n = [r \in Requests |-> 0]
  /\ ret = [r \in Requests |-> <<>>]
  /\ errors = [r \in Requests |-> <<>>]
  /\ i = [r \in Requests |-> 0]
  /\ result = [r \in Requests |-> "none"]
  /\ txOrder = [r \in Requests |-> {}]
  /\ txTickets = [r \in Requests |-> {}]
  /\ written = [r \in Requests |-> {}]

Init == InitStore /\ probe = ProbeIdle

\* ---------------------------------------------------------------- actions
\* views.py:109-122 and serializers.py:177-178: request r arrives with a ticket
\* list of length len; an empty list is rejected by the list field at once
Submit(r, len) ==
  /\ pc[r] = "idle"
  /\ n' = [n EXCEPT ![r] = len]
  /\ IF len = 0
       THEN IF allow_empty
              THEN /\ pc' = [pc EXCEPT ![r] = "create"]
                   /\ UNCHANGED result
              ELSE /\ pc' = [pc EXCEPT ![r] = "done"]
                   /\ result' = [result EXCEPT ![r] = "EmptyOrder"]
       ELSE /\ pc' = [pc EXCEPT ![r] = "validate"]
            /\ UNCHANGED result
  /\ UNCHANGED <<orders, tickets, ret, errors, i, txOrder, txTickets, written,
                 probe>>

\* serializers.py:120-161 under the list field of serializers.py:178: the next
\* item of the list is read and validated against the committed tickets; when
\* no item is left the list is rejected if any entry of errors is not empty
ValidateTicket(r, item) ==
  /\ pc[r] = "validate"
  /\ LET e == run_validation(item, tickets)
         errs == Append(errors[r], e)
         vals == IF e = NoError THEN Append(ret[r], item) ELSE ret[r]
     IN  /\ errors' = [errors EXCEPT ![r] = errs]
         /\ ret' = [ret EXCEPT ![r] = vals]
         /\ IF more_items(errs, n[r])
              THEN UNCHANGED <<pc, result>>
              ELSE IF any_errors(errs)
                     THEN /\ pc' = [pc EXCEPT ![r] = "done"]
                          /\ result' = [result EXCEPT ![r] = "ValidationError"]
                     ELSE /\ pc' = [pc EXCEPT ![r] = "create"]
                          /\ UNCHANGED result
  /\ UNCHANGED <<orders, tickets, n, i, txOrder, txTickets, written, probe>>

\* serializers.py:188-194: the transaction opens and the order row is written
CreateOrder(r) ==
  /\ pc[r] = "create"
  /\ LET w == atomic_write(orders, txOrder[r], new_order(r, user[r]))
     IN  /\ orders' = w.committed
         /\ txOrder' = [txOrder EXCEPT ![r] = w.staged]
         /\ written' = [written EXCEPT ![r] = @ \cup (w.committed \ orders)]
  /\ pc' = [pc EXCEPT ![r] = "insert"]
  /\ UNCHANGED <<tickets, n, ret, errors, i, result, txTickets, probe>>

\* serializers.py:196-198: one ticket row per validated item, with no further check
CreateTicket(r) ==
  /\ pc[r] = "insert"
  /\ i[r] < Len(ret[r])
  /\ LET t == new_ticket(<<r, i[r] + 1>>, r, ret[r][i[r] + 1])
         w == atomic_write(tickets, txTickets[r], t)
     IN  /\ tickets' = w.committed
         /\ txTickets' = [txTickets EXCEPT ![r] = w.staged]
         /\ written' = [written EXCEPT ![r] = @ \cup (w.committed \ tickets)]
  /\ i' = [i EXCEPT ![r] = i[r] + 1]
  /\ UNCHANGED <<orders, pc, n, ret, errors, result, txOrder, probe>>

\* serializers.py:192-200: the block is left by `return order`; the rows of the
\* transaction are committed together
Commit(r) ==
  /\ pc[r] = "insert"
  /\ i[r] = Len(ret[r])
  /\ orders' = orders \cup txOrder[r]
  /\ tickets' = tickets \cup txTickets[r]
  /\ written' = [written EXCEPT ![r] = @ \cup txOrder[r] \cup txTickets[r]]
  /\ txOrder' = [txOrder EXCEPT ![r] = {}]
  /\ txTickets' = [txTickets EXCEPT ![r] = {}]
  /\ pc' = [pc EXCEPT ![r] = "done"]
  /\ result' = [result EXCEPT ![r] = "Created"]
  /\ UNCHANGED <<n, ret, errors, i, probe>>

\* serializers.py:192: a statement of the block raises (the store fails); the
\* block is left by the exception, the rows of the transaction are discarded
\* and the exception reaches the caller
StorageFailure(r) ==
  /\ pc[r] \in {"create", "insert"}
  /\ txOrder' = [txOrder EXCEPT ![r] = {}]
  /\ txTickets' = [txTickets EXCEPT ![r] = {}]
  /\ pc' = [pc EXCEPT ![r] = "done"]
  /\ result' = [result EXCEPT ![r] = "StorageFailure"]
  /\ UNCHANGED <<orders, tickets, n, ret, errors, i, written, probe>>

Next ==
  \/ \E r \in Requests : \E len \in 0..MaxLen : Submit(r, len)
  \/ \E r \in Requests : \E item \in TicketInputs : ValidateTicket(r, item)
  \/ \E r \in Requests : CreateOrder(r)
  \/ \E r \in Requests : CreateTicket(r)
  \/ \E r \in Requests : Commit(r)
  \/ \E r \in Requests : StorageFailure(r)

Spec == Init /\ [][Next]_vars

\* ------------------------------------------------- the seat check on its own
ProbeInputs ==
  [hall : [rows : 1..MaxDim, seats_in_row : 1..MaxDim],
   row : -1..(MaxDim + 1), seat : -1..(MaxDim + 1), out : {"pending"}]

SeatInit == InitStore /\ probe \in ProbeInputs

\* serializers.py:128-146 applied to one hall and one (row, seat)
ApplyValidateRange ==
  /\ probe.out = "pending"
  /\ probe' = [probe EXCEPT !.out = validate_range(probe.hall, probe.row, probe.seat)]
  /\ UNCHANGED <<orders, tickets, pc, n, ret, errors, i, result, txOrder,
                 txTickets, written>>

SeatNext == ApplyValidateRange

SeatSpec == SeatInit /\ [][SeatNext]_vars

\* ================================================================= claims
SameSeat(t, u) ==
  t.movie_session = u.movie_session /\ t.row = u.row /\ t.seat = u.seat

TicketsOf(order_id, tks) == {t \in tks : t.order = order_id}

HasDuplicate(items) ==
  \E k, l \in 1..Len(items) : k # l /\ items[k] = items[l]

Count(items, item) == Cardinality({k \in 1..Len(items) : items[k] = item})

CountSession(items, s) ==
  Cardinality({k \in 1..Len(items) : items[k].movie_session = s})

InvalidAt(errs) == {k \in 1..Len(errs) : errs[k] # NoError}

NothingWritten(r) == written[r] = {} /\ txOrder[r] = {} /\ txTickets[r] = {}

\* C1: in every reachable state no two committed tickets of the same session
\* have the same (row, seat)
C1_NoDoubleBooking ==
  \A t, u \in tickets : SameSeat(t, u) => t = u

\* C2: of two requests that both ask for the same seat of the same session,
\* at most one is answered with the created order
C2_OneWinner ==
  \A r, q \in Requests :
    (r # q /\ result[r] = "Created" /\ result[q] = "Created")
      => ~ \E k \in 1..Len(ret[r]) : \E l \in 1..Len(ret[q]) : ret[r][k] = ret[q][l]

\* C3: a request whose list holds the same (session, row, seat) twice, free in
\* the store, is never answered with the created order and writes nothing
C3_DuplicateRejected ==
  \A r \in Requests :
    HasDuplicate(ret[r]) => (result[r] # "Created" /\ written[r] = {})

\* C4: a request with an invalid item, at whatever position, is rejected and
\* has written no row: no order and no ticket, committed or staged, is its own
C4_InvalidItemNothingPersisted ==
  \A r \in Requests :
    InvalidAt(errors[r]) # {}
      => /\ NothingWritten(r)
         /\ \A o \in orders : o.id # r
         /\ pc[r] \in {"validate", "done"}
         /\ pc[r] = "done" => result[r] = "ValidationError"

\* the second of two items is invalid (its seat is taken by a committed ticket
\* of the other request), the first is valid, and the request is rejected
C4_Witness ==
  \E r \in Requests :
    /\ pc[r] = "done"
    /\ errors[r] = <<NoError, "SeatTaken">>
    /\ Len(ret[r]) = 1
    /\ tickets # {}

\* C5: an empty ticket list is rejected at once, before a transaction is opened
\* or a row written, and every committed order has at least one committed ticket
C5_NoEmptyOrder ==
  /\ \A o \in orders : TicketsOf(o.id, tickets) # {}
  /\ \A r \in Requests :
       (pc[r] # "idle" /\ n[r] = 0)
         => pc[r] = "done" /\ result[r] = "EmptyOrder" /\ NothingWritten(r)

\* one request was rejected for its empty list while the other one's order is
\* in the store
C5_Witness ==
  \E r \in Requests : result[r] = "EmptyOrder" /\ orders # {}

\* C6: the seat check succeeds exactly when 1 <= row <= rows and
\* 1 <= seat <= seats_in_row; it names the row when the row is out of bounds and
\* the seat when only the seat is; it changes nothing in the store
C6_SeatCheck ==
  probe.out \notin {"pending", "unused"}
    => LET rowOk == 1 <= probe.row /\ probe.row <= probe.hall.rows
           seatOk == 1 <= probe.seat /\ probe.seat <= probe.hall.seats_in_row
       IN  /\ probe.out = NoError <=> (rowOk /\ seatOk)
           /\ ~rowOk => probe.out = "OutOfRangeRow"
           /\ (rowOk /\ ~seatOk) => probe.out = "OutOfRangeSeat"
           /\ orders = {} /\ tickets = {}

\* the last row of a hall with several rows is accepted
C6_Witness ==
  /\ probe.out = NoError
  /\ probe.row = probe.hall.rows
  /\ probe.hall.rows > 1
  /\ probe.seat = probe.hall.seats_in_row

\* C7 as stated: validation stops at the first invalid item, so a rejected
\* request has read no item after it and reports one rejection only
C7_FailFast ==
  \A r \in Requests :
    result[r] = "ValidationError"
      => InvalidAt(errors[r]) = {Len(errors[r])}

\* C7 as amended: every item of a rejected request is validated; the rejection
\* holds one entry per item in input order, empty for exactly the items that
\* were found valid
C7_AllErrorsCollected ==
  \A r \in Requests :
    /\ result[r] = "ValidationError"
         => /\ Len(errors[r]) = n[r]
            /\ InvalidAt(errors[r]) # {}
    /\ Len(ret[r]) + Cardinality(InvalidAt(errors[r])) = Len(errors[r])
    /\ pc[r] = "validate" => Len(errors[r]) < n[r]

\* both items of a request are invalid and both rejections are reported
C7_Witness ==
  \E r \in Requests :
    /\ result[r] = "ValidationError"
    /\ Len(errors[r]) = 2
    /\ InvalidAt(errors[r]) = {1, 2}

\* C8: the step that answers a request with the created order adds exactly one
\* order, owned by the request's user, and exactly one ticket per item of the
\* list, with the item's session, row and seat and the new order; the tickets
\* available of every session drop by the number of items for it; no other row
\* changes; and a request is rejected on validation only for an invalid item
C8_SuccessAddsOrderAndTickets ==
  [][\A r \in Requests :
       /\ (result[r] # "Created" /\ result'[r] = "Created")
            => LET newOrders == orders' \ orders
                   newTickets == tickets' \ tickets
               IN  /\ orders \subseteq orders'
                   /\ tickets \subseteq tickets'
                   /\ Cardinality(newOrders) = 1
                   /\ \A o \in newOrders :
                        /\ o.user = user[r]
                        /\ \A t \in newTickets : t.order = o.id
                   /\ Cardinality(newTickets) = n[r]
                   /\ Len(ret[r]) = n[r]
                   /\ \A item \in TicketInputs :
                        Cardinality({t \in newTickets : SameSeat(t, item)})
                          = Count(ret[r], item)
                   /\ \A s \in SessionIds :
                        get_tickets_available(s, tickets')
                          = get_tickets_available(s, tickets)
                              - CountSession(ret[r], s)
       /\ (pc[r] = "validate" /\ pc'[r] = "done")
            => InvalidAt(errors'[r]) # {}
    ]_vars

\* a request for one seat in each of the two sessions is answered with the
\* created order while the order of the other request is in the store
C8_Witness ==
  \E r \in Requests :
    /\ result[r] = "Created"
    /\ n[r] = 2
    /\ ret[r][1].movie_session # ret[r][2].movie_session
    /\ Cardinality(TicketsOf(r, tickets)) = 2
    /\ Cardinality(orders) = 2

\* C9: a committed order is in the store with all the tickets of its request,
\* no committed ticket is without its order, and a request that failed inside
\* the transaction has left no row of its own and got the failure as its answer
C9_AllOrNothing ==
  /\ \A o \in orders : Cardinality(TicketsOf(o.id, tickets)) = Len(ret[o.id])
  /\ \A t \in tickets : \E o \in orders : o.id = t.order
  /\ \A r \in Requests :
       result[r] = "StorageFailure"
         => /\ NothingWritten(r)
            /\ pc[r] = "done"
            /\ \A o \in orders : o.id # r
            /\ TicketsOf(r, tickets) = {}

\* the store failed after the order and the first of two tickets were written
C9_Witness ==
  \E r \in Requests :
    /\ result[r] = "StorageFailure"
    /\ Len(ret[r]) = 2
    /\ i[r] = 1

\* C10: every committed ticket lies within the hall of its own session, no
\* session has more tickets than its hall has seats and tickets-available is
\* never negative
C10_InRangeWithinCapacity ==
  /\ \A t \in tickets :
       LET hall == CinemaHalls[MovieSessions[t.movie_session]]
       IN  /\ 1 <= t.row /\ t.row <= hall.rows
           /\ 1 <= t.seat /\ t.seat <= hall.seats_in_row
  /\ \A s \in SessionIds : get_tickets_available(s, tickets) >= 0

====
